---- MODULE Spec2Model ----
(***************************************************************************)
(* Model of the screenshot-automation scripts:                             *)
(*   scripts/capture_screenshots.js  (class ScreenshotManager, the         *)
(*                                    "capture session tracker")           *)
(*   scripts/puppeteer_capture.js    (class ScreenshotCapture, the batch   *)
(*                                    runner, and its main)                *)
(*                                                                         *)
(* JavaScript objects are modelled as functions whose DOMAIN is the set of *)
(* keys the object has: a key that was never assigned, or that was         *)
(* deleted, is not in the DOMAIN.  ISO timestamps are modelled by the      *)
(* reading of a clock (now) that advances after every call that stamps the *)
(* metadata with it.                                                       *)
(* A path is the tuple of its components: `${dir}/${id}.png` and           *)
(* path.join(dir, `${id}.png`) are both <<dir, id, "png">>.                *)
(***************************************************************************)
EXTENDS Integers, Sequences, FiniteSets, TLC

\* ------------------------------------------------------------------ bounds
\* Longest screenshots.list a metadata file holds at construction.
MaxTasks == 3
\* Number of calls that stamp the metadata (new Date()) in one behaviour.
MaxTime == 3

\* ----------------------------------------------------------------- objects
Has(o, k) == k \in DOMAIN o

Put(o, k, v) == [x \in (DOMAIN o) \cup {k} |-> IF x = k THEN v ELSE o[x]]

Del(o, k) == [x \in (DOMAIN o) \ {k} |-> o[x]]

\* The value every optional key reads as when the key is missing.
undefined == "undefined"

Get(o, k) == IF Has(o, k) THEN o[k] ELSE undefined

\* ------------------------------------------------------------------ inputs
\* Ids of the screenshots a metadata file lists, in list order.
\* The first two are ids the batch runner captures (one public, one behind the
\* login), the others are screenshots only the metadata file knows.
TaskIds ==
    <<"screenshot_01_homepage", "screenshot_05_admin_dashboard",
      "screenshot_08_settings", "screenshot_09_profile">>

\* An id no metadata list holds.
UnknownId == "nope"

\* The definition of the i-th screenshot as the analysis step writes it
\* (SKILL.md, example metadata): status and auth_required are optional.
TaskDef(i) ==
    LET id == [x \in {"id"} |-> TaskIds[i]]
    IN  CASE i % 3 = 1 -> id
          [] i % 3 = 2 -> Put(id, "auth_required", TRUE)
          [] OTHER     -> Put(Put(id, "auth_required", FALSE), "status", "pending")

\* Arguments of markCaptured: no path (null), or a path of the caller's.
CustomPath == <<"custom", "shot", "png">>
null == <<>>
FilePaths == {null, CustomPath}

\* Arguments of markFailed (errorMessage) and of markSkipped (reason).
FailMessages == {"timeout"}
SkipReasons == {"auth required"}

\* screenshots.output_dir of the metadata file listing n screenshots: the key is
\* optional, and the files of odd length have it.
OutputDirOf(n) == IF n % 2 = 1 THEN "shots" ELSE undefined

\* -------------------------------------------------------------------- state
VARIABLES
    file,        \* contents of the metadata file (NoFile: it does not exist)
    metadata,    \* ScreenshotManager.metadata (null before load)
    outputDir,   \* ScreenshotManager.outputDir
    now,         \* the clock: the reading the next new Date() returns
    last,        \* the last ScreenshotManager call made and how it ended
    authMode,        \* CONFIG.authMode: the run was started with --auth
    pc,              \* where main() of the batch runner is ("idle": not started)
    browser,         \* ScreenshotCapture.browser: null, "open" or "closed"
    isAuthenticated, \* ScreenshotCapture.isAuthenticated
    results,         \* ScreenshotCapture.results
    step,            \* the last step of the batch runner and what it did
    contexts,        \* further processes that load, make one mark-* call and save
    serialized       \* no such process has loaded while another was between load and save

managerVars == <<metadata, outputDir, last>>
runnerVars == <<authMode, pc, browser, isAuthenticated, results, step>>
contextVars == <<contexts, serialized>>
vars == <<file, now, managerVars, runnerVars, contextVars>>

NoFile == <<>>

Loaded == metadata # null

\* The metadata file the analysis step leaves: n screenshots not yet captured.
FreshFile(n) ==
    LET shots0 == [status |-> "placeholder", list |-> [i \in 1..n |-> TaskDef(i)]]
        shots  == IF OutputDirOf(n) = undefined THEN shots0
                  ELSE Put(shots0, "output_dir", OutputDirOf(n))
    IN  [screenshots |-> shots]

Init ==
    /\ file \in {NoFile} \cup {FreshFile(n) : n \in 0..MaxTasks}
    /\ metadata = null
    /\ outputDir = "screenshots"
    /\ now = 1
    /\ last = [op |-> "constructor", threw |-> FALSE]
    /\ authMode = FALSE
    /\ pc = "idle"
    /\ browser = "null"
    /\ isAuthenticated = FALSE
    /\ results = <<>>
    /\ step = [op |-> "constructor"]
    /\ contexts = <<>>
    /\ serialized = TRUE

\* ----------------------------------------------------------- ScreenshotManager
List(m) == m.screenshots.list

\* Array.prototype.find(s => s.id === id): the first index, 0 when there is none.
FindIndex(list, id) ==
    IF \E i \in 1..Len(list) : list[i].id = id
    THEN CHOOSE i \in 1..Len(list) :
            /\ list[i].id = id
            /\ \A j \in 1..(i - 1) : list[j].id # id
    ELSE 0

CountStatus(list, st) == Cardinality({i \in 1..Len(list) : Get(list[i], "status") = st})

\* Mutant: only an explicit status pending counts, a missing status does not.
IsPending_OnlyPending(s) == Get(s, "status") = "pending"

IsPending(s) == Get(s, "status") = undefined \/ s.status = "pending"

\* save(): stamps updated_at and writes the whole in-memory object.
Saved(m, t) == Put(m, "updated_at", t)

\* The keys whose value is a string or undefined: those the methods assign from
\* an argument (error) or read as strings (id, status, output_dir).
StringKeys == {"id", "status", "error", "output_dir"}

\* JSON.stringify drops the keys whose value is undefined; every other value of
\* the metadata (strings, numbers, booleans, arrays, objects) is written as it is
\* and JSON.parse reads it back.
Stringified(o) ==
    [k \in {x \in DOMAIN o : ~(x \in StringKeys /\ o[x] = undefined)} |-> o[k]]

\* Mutant: the errors of the screenshots are not written.
Written_NoErrors(m) ==
    LET shots == m.screenshots
        list  == [i \in 1..Len(shots.list) |-> Del(Stringified(shots.list[i]), "error")]
    IN  Stringified(Put(m, "screenshots", Stringified(Put(shots, "list", list))))

\* What the file holds after writeFileSync(JSON.stringify(m)), as load parses it:
\* the object, its screenshots object and each screenshot stringified.
Written(m) ==
    LET shots == m.screenshots
        list  == [i \in 1..Len(shots.list) |-> Stringified(shots.list[i])]
    IN  Stringified(Put(m, "screenshots", Stringified(Put(shots, "list", list))))

WithShots(m, shots) == [m EXCEPT !.screenshots = shots]

WithTask(m, i, task) == [m EXCEPT !.screenshots.list[i] = task]

load ==
    /\ IF file = NoFile
       THEN /\ UNCHANGED <<metadata, outputDir>>
            /\ last' = [op |-> "load", threw |-> TRUE]
       ELSE /\ metadata' = file
            /\ outputDir' = IF Get(file.screenshots, "output_dir") = undefined
                            THEN "screenshots"
                            ELSE file.screenshots.output_dir
            /\ last' = [op |-> "load", threw |-> FALSE]
    /\ UNCHANGED <<file, now, runnerVars, contextVars>>

StartedMetadata(m, t) ==
    WithShots(m, Put(Put(m.screenshots, "status", "capturing"), "capture_started_at", t))

startCapture ==
    /\ Loaded
    /\ now <= MaxTime
    /\ metadata' = Saved(StartedMetadata(metadata, now), now)
    /\ file' = Written(metadata')
    /\ now' = now + 1
    /\ last' = [op |-> "startCapture", threw |-> FALSE, at |-> now]
    /\ UNCHANGED <<outputDir, runnerVars, contextVars>>

\* Mutant: file_path is not assigned.
CapturedTask_NoPath(s, id, filePath, dir, t) ==
    Del(Put(Put(s, "status", "captured"), "captured_at", t), "error")

\* Mutant: the error of an earlier failure is not deleted.
CapturedTask_KeepsError(s, id, filePath, dir, t) ==
    Put(Put(Put(s, "status", "captured"),
            "captured_at", t),
        "file_path", IF filePath # null THEN filePath ELSE <<dir, id, "png">>)

\* Mutant: capturing a screenshot that is captured already flags a duplicate.
CapturedTask_FlagsDuplicate(s, id, filePath, dir, t) ==
    LET c == Put(Put(Put(s, "status", "captured"),
                     "captured_at", t),
                 "file_path", IF filePath # null THEN filePath ELSE <<dir, id, "png">>)
    IN  IF Get(s, "status") = "captured" THEN Put(c, "error", "duplicate")
        ELSE Del(c, "error")

\* markCaptured's assignments to the screenshot it found (lines 92-95).
CapturedTask(s, id, filePath, dir, t) ==
    Del(Put(Put(Put(s, "status", "captured"),
                "captured_at", t),
            "file_path", IF filePath # null THEN filePath ELSE <<dir, id, "png">>),
        "error")

\* Mutant: a failure is recorded for every screenshot that is still queued too.
MarkedFailed_AndQueued(m, id, errorMessage) ==
    LET i == FindIndex(List(m), id)
        all == [j \in 1..Len(List(m)) |->
                  IF j = i \/ IsPending(List(m)[j])
                  THEN Put(Put(List(m)[j], "status", "failed"), "error", errorMessage)
                  ELSE List(m)[j]]
    IN  IF i = 0
        THEN [threw |-> TRUE, metadata |-> m]
        ELSE [threw |-> FALSE, metadata |-> WithShots(m, Put(m.screenshots, "list", all))]

\* Mutant: a skipped screenshot is taken off the list.
MarkedSkipped_Removes(m, id, reason) ==
    LET i == FindIndex(List(m), id)
    IN  IF i = 0
        THEN [threw |-> TRUE, metadata |-> m]
        ELSE [threw |-> FALSE,
              metadata |-> WithShots(m, Put(m.screenshots, "list",
                              SelectSeq(List(m), LAMBDA s : s.id # id)))]

\* Mutant: a screenshot that is captured already cannot be skipped.
MarkedSkipped_RejectsCaptured(m, id, reason) ==
    LET i == FindIndex(List(m), id)
    IN  IF i = 0 \/ Get(List(m)[i], "status") = "captured"
        THEN [threw |-> TRUE, metadata |-> m]
        ELSE [threw |-> FALSE,
              metadata |-> WithTask(m, i, Put(Put(List(m)[i], "status", "skipped"),
                                              "error", reason))]

\* markFailed's assignments (lines 107-108).
FailedTask(s, errorMessage) == Put(Put(s, "status", "failed"), "error", errorMessage)

\* Mutant: a status outside the enum.
SkippedTask_Skip(s, reason) == Put(Put(s, "status", "skip"), "error", reason)

\* Mutant: skipping puts the screenshot back in the queue.
SkippedTask_Requeues(s, reason) == Put(Put(s, "status", "pending"), "error", reason)

\* markSkipped's assignments (lines 120-121).
SkippedTask(s, reason) == Put(Put(s, "status", "skipped"), "error", reason)

\* The outcome of a mark-* call up to its save: threw tells whether it raised
\* "Screenshot not found", metadata is this.metadata when it returned or raised.
\* Mutant: every capture also marks the whole session captured.
MarkedCaptured_SetsStatus(m, id, filePath, dir, t) ==
    LET i == FindIndex(List(m), id)
    IN  IF i = 0
        THEN [threw |-> TRUE, metadata |-> m]
        ELSE [threw |-> FALSE,
              metadata |-> WithShots(
                  WithTask(m, i, CapturedTask(List(m)[i], id, filePath, dir, t)),
                  Put(WithTask(m, i, CapturedTask(List(m)[i], id, filePath, dir, t)).screenshots,
                      "status", "captured"))]

MarkedCaptured(m, id, filePath, dir, t) ==
    LET i == FindIndex(List(m), id)
    IN  IF i = 0
        THEN [threw |-> TRUE, metadata |-> m]
        ELSE [threw |-> FALSE,
              metadata |-> WithTask(m, i, CapturedTask(List(m)[i], id, filePath, dir, t))]

\* Mutant: a lookup that finds nothing is skipped over instead of raising.
MarkedFailed_NoThrow(m, id, errorMessage) ==
    LET i == FindIndex(List(m), id)
    IN  IF i = 0
        THEN [threw |-> FALSE, metadata |-> m]
        ELSE [threw |-> FALSE, metadata |-> WithTask(m, i, FailedTask(List(m)[i], errorMessage))]

MarkedFailed(m, id, errorMessage) ==
    LET i == FindIndex(List(m), id)
    IN  IF i = 0
        THEN [threw |-> TRUE, metadata |-> m]
        ELSE [threw |-> FALSE, metadata |-> WithTask(m, i, FailedTask(List(m)[i], errorMessage))]

MarkedSkipped(m, id, reason) ==
    LET i == FindIndex(List(m), id)
    IN  IF i = 0
        THEN [threw |-> TRUE, metadata |-> m]
        ELSE [threw |-> FALSE, metadata |-> WithTask(m, i, SkippedTask(List(m)[i], reason))]

\* The ids a caller passes: those of the list, and one the list does not hold.
CallIds(m) == {List(m)[i].id : i \in 1..Len(List(m))} \cup {UnknownId}

\* The status of the screenshot a mark-* call names, as the call finds it
\* ("none": the list does not hold the id).
StatusBefore(m, id) ==
    IF FindIndex(List(m), id) = 0 THEN "none"
    ELSE Get(List(m)[FindIndex(List(m), id)], "status")

\* Whether a call repeats the call made just before it, which returned: the same
\* method with the same arguments.
Repeats(call) ==
    /\ last.op = call.op
    /\ ~last.threw
    /\ last.id = call.id
    /\ last.arg = call.arg

\* A mark-* call ends: it raised before save(), or it saved and returned.  The
\* record of the call keeps what it found: from, the status before it, and again,
\* whether it repeats the call before it.
MarkEnds(r, call) ==
    /\ r.threw \/ now <= MaxTime
    /\ metadata' = IF r.threw THEN r.metadata ELSE Saved(r.metadata, now)
    /\ file' = IF r.threw THEN file ELSE Written(metadata')
    /\ now' = IF r.threw THEN now ELSE now + 1
    /\ last' = [op |-> call.op, id |-> call.id, arg |-> call.arg,
                threw |-> r.threw, at |-> now,
                from |-> StatusBefore(metadata, call.id),
                again |-> Repeats(call)]
    /\ UNCHANGED <<outputDir, runnerVars, contextVars>>

markCaptured ==
    /\ Loaded
    /\ \E id \in CallIds(metadata), filePath \in FilePaths :
          MarkEnds(MarkedCaptured(metadata, id, filePath, outputDir, now),
                   [op |-> "markCaptured", id |-> id, arg |-> filePath,
                    threw |-> FALSE, at |-> now])

markFailed ==
    /\ Loaded
    /\ \E id \in CallIds(metadata), errorMessage \in FailMessages :
          MarkEnds(MarkedFailed(metadata, id, errorMessage),
                   [op |-> "markFailed", id |-> id, arg |-> errorMessage,
                    threw |-> FALSE, at |-> now])

markSkipped ==
    /\ Loaded
    /\ \E id \in CallIds(metadata), reason \in SkipReasons :
          MarkEnds(MarkedSkipped(metadata, id, reason),
                   [op |-> "markSkipped", id |-> id, arg |-> reason,
                    threw |-> FALSE, at |-> now])

\* Mutant: "some captured" tested as captured >= 0, so nothing captured is partial.
RollupStatus_NoneIsPartial(captured, total) ==
    IF captured = total THEN "captured"
    ELSE IF captured >= 0 THEN "partial"
    ELSE "failed"

\* The rollup of finishCapture (lines 135-141).
RollupStatus(captured, total) ==
    IF captured = total THEN "captured"
    ELSE IF captured > 0 THEN "partial"
    ELSE "failed"

\* Mutant: skipped screenshots are counted as failed.
Summary_SkippedAsFailed(list) ==
    [total    |-> Len(list),
     captured |-> CountStatus(list, "captured"),
     failed   |-> CountStatus(list, "failed") + CountStatus(list, "skipped"),
     skipped  |-> 0]

\* The summary finishCapture embeds (lines 144-149).
Summary(list) ==
    [total    |-> Len(list),
     captured |-> CountStatus(list, "captured"),
     failed   |-> CountStatus(list, "failed"),
     skipped  |-> CountStatus(list, "skipped")]

\* Mutant: a status that is already terminal is not recomputed.
FinishedMetadata_KeepsTerminal(m, t) ==
    LET list == List(m)
        old == m.screenshots.status
        st == IF old \in {"captured", "partial", "failed"} THEN old
              ELSE RollupStatus(CountStatus(list, "captured"), Len(list))
        shots == Put(Put(Put(m.screenshots, "status", st), "captured_at", t),
                     "summary", Summary(list))
    IN  WithShots(m, shots)

FinishedMetadata(m, t) ==
    LET list == List(m)
        shots == Put(Put(Put(m.screenshots,
                             "status", RollupStatus(CountStatus(list, "captured"), Len(list))),
                         "captured_at", t),
                     "summary", Summary(list))
    IN  WithShots(m, shots)

finishCapture ==
    /\ Loaded
    /\ now <= MaxTime
    /\ metadata' = Saved(FinishedMetadata(metadata, now), now)
    /\ file' = Written(metadata')
    /\ now' = now + 1
    /\ last' = [op |-> "finishCapture", threw |-> FALSE, at |-> now]
    /\ UNCHANGED <<outputDir, runnerVars, contextVars>>

\* getProgress(): the five counts, by scanning the list.
Progress(m) ==
    [total    |-> Len(List(m)),
     captured |-> CountStatus(List(m), "captured"),
     failed   |-> CountStatus(List(m), "failed"),
     skipped  |-> CountStatus(List(m), "skipped"),
     pending  |-> Cardinality({i \in 1..Len(List(m)) : IsPending(List(m)[i])})]

getProgress ==
    /\ Loaded
    /\ last' = [op |-> "getProgress", threw |-> FALSE, result |-> Progress(metadata)]
    /\ UNCHANGED <<file, metadata, outputDir, now, runnerVars, contextVars>>

\* getPendingScreenshots(): the list filtered, in list order.
PendingScreenshots(m) == SelectSeq(List(m), IsPending)

getPendingScreenshots ==
    /\ Loaded
    /\ last' = [op |-> "getPendingScreenshots", threw |-> FALSE,
                result |-> PendingScreenshots(metadata)]
    /\ UNCHANGED <<file, metadata, outputDir, now, runnerVars, contextVars>>

\* getAuthRequiredScreenshots(): the list filtered by a truthy auth_required.
AuthRequiredScreenshots(m) ==
    SelectSeq(List(m), LAMBDA s : Has(s, "auth_required") /\ s.auth_required)

getAuthRequiredScreenshots ==
    /\ Loaded
    /\ last' = [op |-> "getAuthRequiredScreenshots", threw |-> FALSE,
                result |-> AuthRequiredScreenshots(metadata)]
    /\ UNCHANGED <<file, metadata, outputDir, now, runnerVars, contextVars>>

\* Mutant: public means auth_required === false, so a missing key is in no group.
PublicScreenshots_StrictFalse(m) ==
    SelectSeq(List(m), LAMBDA s : Has(s, "auth_required") /\ ~s.auth_required)

\* getPublicScreenshots(): the list filtered by a falsy (or missing) auth_required.
PublicScreenshots(m) ==
    SelectSeq(List(m), LAMBDA s : ~(Has(s, "auth_required") /\ s.auth_required))

getPublicScreenshots ==
    /\ Loaded
    /\ last' = [op |-> "getPublicScreenshots", threw |-> FALSE,
                result |-> PublicScreenshots(metadata)]
    /\ UNCHANGED <<file, metadata, outputDir, now, runnerVars, contextVars>>

\* generateReport(): the summary lines and one block per screenshot; a File line
\* only when file_path is set, an Error line only when error is set.
ReportBlock(s) ==
    LET b0 == [id |-> s.id,
               status |-> IF Get(s, "status") = undefined THEN "pending" ELSE s.status]
        b1 == IF Has(s, "file_path") THEN Put(b0, "File", s.file_path) ELSE b0
    IN  IF Has(s, "error") THEN Put(b1, "Error", s.error) ELSE b1

Report(m) ==
    [summary |-> Progress(m),
     details |-> [i \in 1..Len(List(m)) |-> ReportBlock(List(m)[i])]]

generateReport ==
    /\ Loaded
    /\ last' = [op |-> "generateReport", threw |-> FALSE, result |-> Report(metadata)]
    /\ UNCHANGED <<file, metadata, outputDir, now, runnerVars, contextVars>>

\* ----------------------------------------------------------- ScreenshotCapture
\* SCREENSHOTS (puppeteer_capture.js lines 26-35): the id of each definition and
\* whether it has auth: true.
SCREENSHOTS ==
    << [id |-> "screenshot_01_homepage",         auth |-> FALSE],
       [id |-> "screenshot_02_top_navigation",   auth |-> FALSE],
       [id |-> "screenshot_03_login_button",     auth |-> FALSE],
       [id |-> "screenshot_04_login_page",       auth |-> FALSE],
       [id |-> "screenshot_05_admin_dashboard",  auth |-> TRUE],
       [id |-> "screenshot_06_create_bot_card",  auth |-> TRUE],
       [id |-> "screenshot_07_create_bot_modal", auth |-> TRUE] >>

\* CONFIG.outputDir with OUTPUT_DIR unset.
ConfigOutputDir == "screenshots"

\* error.message of what the browser throws.
BrowserErrors == {"Navigation timeout of 30000 ms exceeded"}

\* node puppeteer_capture.js [--auth]: CONFIG is read, main() constructs the runner.
main ==
    /\ pc = "idle"
    /\ \E auth \in BOOLEAN : authMode' = auth
    /\ pc' = "init"
    /\ step' = [op |-> "main"]
    /\ UNCHANGED <<file, now, managerVars, contextVars, browser, isAuthenticated, results>>

\* Mutant: main has no finally, so a throw of init ends the run without close().
init_NoFinally ==
    /\ pc = "init"
    /\ \E outcome \in {"ok", "launch threw", "newPage threw"} :
          /\ browser' = IF outcome = "launch threw" THEN "null" ELSE "open"
          /\ pc' = IF outcome = "ok" THEN "captureAll" ELSE "done"
          /\ step' = [op |-> "init", threw |-> outcome # "ok"]
    /\ UNCHANGED <<file, now, managerVars, contextVars, authMode, isAuthenticated, results>>

\* init(): puppeteer.launch and newPage; either may throw, and main's catch and
\* finally then run close().
init ==
    /\ pc = "init"
    /\ \E outcome \in {"ok", "launch threw", "newPage threw"} :
          /\ browser' = IF outcome = "launch threw" THEN "null" ELSE "open"
          /\ pc' = IF outcome = "ok" THEN "captureAll" ELSE "close"
          /\ step' = [op |-> "init", threw |-> outcome # "ok"]
    /\ UNCHANGED <<file, now, managerVars, contextVars, authMode, isAuthenticated, results>>

\* Mutant: the login flow runs before every page that needs a login.
CaptureOutcome_AuthEveryTime(shot, authenticated, mode, authOk, shotOk, err) ==
    IF shot.auth /\ ~authenticated /\ ~mode
    THEN [result |-> [id |-> shot.id, status |-> "skipped", reason |-> "auth required"],
          isAuthenticated |-> authenticated,
          authenticate |-> "not called", attempted |-> FALSE]
    ELSE IF shot.auth /\ ~authOk
    THEN [result |-> [id |-> shot.id, status |-> "failed", error |-> err],
          isAuthenticated |-> authenticated,
          authenticate |-> "threw", attempted |-> FALSE]
    ELSE [result |-> IF shotOk
                     THEN [id |-> shot.id, status |-> "captured",
                           path |-> <<ConfigOutputDir, shot.id, "png">>]
                     ELSE [id |-> shot.id, status |-> "failed", error |-> err],
          isAuthenticated |-> authenticated \/ shot.auth,
          authenticate |-> IF shot.auth THEN "completed" ELSE "not called",
          attempted |-> TRUE]

\* Mutant: without --auth the page that needs a login is captured all the same.
CaptureOutcome_NoAuthCheck(shot, authenticated, mode, authOk, shotOk, err) ==
    IF shot.auth /\ ~authenticated /\ mode /\ ~authOk
    THEN [result |-> [id |-> shot.id, status |-> "failed", error |-> err],
          isAuthenticated |-> authenticated,
          authenticate |-> "threw", attempted |-> FALSE]
    ELSE [result |-> IF shotOk
                     THEN [id |-> shot.id, status |-> "captured",
                           path |-> <<ConfigOutputDir, shot.id, "png">>]
                     ELSE [id |-> shot.id, status |-> "failed", error |-> err],
          isAuthenticated |-> authenticated \/ (shot.auth /\ mode),
          authenticate |-> IF shot.auth /\ ~authenticated /\ mode
                           THEN "completed" ELSE "not called",
          attempted |-> TRUE]

\* What one capture(screenshot) does, given what the browser does: authenticate()
\* completes or throws, navigation, action and screenshot succeed or one throws.
\* authenticate is "not called", "threw" or "completed"; attempted tells whether
\* navigation to the page was started.
CaptureOutcome(shot, authenticated, mode, authOk, shotOk, err) ==
    IF shot.auth /\ ~authenticated /\ ~mode
    THEN [result |-> [id |-> shot.id, status |-> "skipped", reason |-> "auth required"],
          isAuthenticated |-> authenticated,
          authenticate |-> "not called", attempted |-> FALSE]
    ELSE IF shot.auth /\ ~authenticated /\ ~authOk
    THEN [result |-> [id |-> shot.id, status |-> "failed", error |-> err],
          isAuthenticated |-> authenticated,
          authenticate |-> "threw", attempted |-> FALSE]
    ELSE [result |-> IF shotOk
                     THEN [id |-> shot.id, status |-> "captured",
                           path |-> <<ConfigOutputDir, shot.id, "png">>]
                     ELSE [id |-> shot.id, status |-> "failed", error |-> err],
          isAuthenticated |-> authenticated \/ shot.auth,
          authenticate |-> IF shot.auth /\ ~authenticated THEN "completed" ELSE "not called",
          attempted |-> TRUE]

\* One iteration of captureAll's loop: capture(SCREENSHOTS[k]), k the next index.
capture ==
    /\ pc = "captureAll"
    /\ Len(results) < Len(SCREENSHOTS)
    /\ \E authOk \in BOOLEAN, shotOk \in BOOLEAN, err \in BrowserErrors :
          LET k == Len(results) + 1
              o == CaptureOutcome(SCREENSHOTS[k], isAuthenticated, authMode,
                                  authOk, shotOk, err)
          IN  /\ results' = Append(results, o.result)
              /\ isAuthenticated' = o.isAuthenticated
              /\ step' = [op |-> "capture", index |-> k, id |-> SCREENSHOTS[k].id,
                          authenticate |-> o.authenticate, attempted |-> o.attempted]
    /\ UNCHANGED <<file, now, managerVars, contextVars, authMode, pc, browser>>

\* Mutant: the loop is left at the first failed result.
captureAllReturns_AtFirstFailure ==
    /\ pc = "captureAll"
    /\ \/ Len(results) = Len(SCREENSHOTS)
       \/ results # <<>> /\ results[Len(results)].status = "failed"
    /\ pc' = "updateMetadata"
    /\ step' = [op |-> "captureAll"]
    /\ UNCHANGED <<file, now, managerVars, contextVars, authMode, browser, isAuthenticated, results>>

\* captureAll returns this.results once the loop is over.
captureAllReturns ==
    /\ pc = "captureAll"
    /\ Len(results) = Len(SCREENSHOTS)
    /\ pc' = "updateMetadata"
    /\ step' = [op |-> "captureAll"]
    /\ UNCHANGED <<file, now, managerVars, contextVars, authMode, browser, isAuthenticated, results>>

\* Mutant: only a captured result is written to the screenshot.
UpdatedTask_OnlyCaptured(s, result, t) ==
    IF result.status = "captured"
    THEN Put(Put(Put(s, "status", result.status), "file_path", result.path), "captured_at", t)
    ELSE s

\* updateMetadata's assignments to the screenshot a result names (lines 206-209).
UpdatedTask(s, result, t) ==
    LET s1 == Put(s, "status", result.status)
        s2 == IF Has(result, "path") THEN Put(s1, "file_path", result.path) ELSE s1
        s3 == IF Has(result, "error") THEN Put(s2, "error", result.error) ELSE s2
    IN  Put(s3, "captured_at", t)

\* The loop over this.results (lines 203-211), from the first result on.  The
\* list after one iteration is bound as a value (list1) before the next one.
RECURSIVE ApplyResults(_, _, _)
ApplyResults(list, rs, t) ==
    IF rs = <<>> THEN list
    ELSE LET i == FindIndex(list, Head(rs).id)
             after == IF i = 0 THEN list
                      ELSE [list EXCEPT ![i] = UpdatedTask(list[i], Head(rs), t)]
         IN  CHOOSE out \in {ApplyResults(list1, Tail(rs), t) : list1 \in {after}} : TRUE

\* The overall status updateMetadata writes (lines 213-214).
BatchStatus(rs) ==
    IF Cardinality({k \in 1..Len(rs) : rs[k].status = "captured"}) = Len(SCREENSHOTS)
    THEN "captured"
    ELSE "partial"

\* The object updateMetadata writes, from the one it read.
UpdatedMetadata(m, rs, t) ==
    LET shots == Put(Put(Put(m.screenshots, "list", ApplyResults(List(m), rs, t)),
                         "status", BatchStatus(rs)),
                     "captured_at", t)
    IN  Put(WithShots(m, shots), "updated_at", t)

updateMetadata ==
    /\ pc = "updateMetadata"
    /\ IF file = NoFile
       THEN /\ UNCHANGED <<file, now>>
            /\ step' = [op |-> "updateMetadata", wrote |-> FALSE]
       ELSE /\ now <= MaxTime
            /\ file' = UpdatedMetadata(file, results, now)
            /\ now' = now + 1
            /\ step' = [op |-> "updateMetadata", wrote |-> TRUE]
    /\ pc' = "printSummary"
    /\ UNCHANGED <<managerVars, contextVars, authMode, browser, isAuthenticated, results>>

\* printSummary(): the three counts of this.results.
RunSummary(rs) ==
    [captured |-> Cardinality({k \in 1..Len(rs) : rs[k].status = "captured"}),
     failed   |-> Cardinality({k \in 1..Len(rs) : rs[k].status = "failed"}),
     skipped  |-> Cardinality({k \in 1..Len(rs) : rs[k].status = "skipped"})]

printSummary ==
    /\ pc = "printSummary"
    /\ pc' = "close"
    /\ step' = [op |-> "printSummary", printed |-> RunSummary(results)]
    /\ UNCHANGED <<file, now, managerVars, contextVars, authMode, browser, isAuthenticated, results>>

\* close(), from main's finally.
close ==
    /\ pc = "close"
    /\ browser' = IF browser # "null" THEN "closed" ELSE browser
    /\ pc' = "done"
    /\ step' = [op |-> "close"]
    /\ UNCHANGED <<file, now, managerVars, contextVars, authMode, isAuthenticated, results>>

\* ------------------------------------------------------------ specification
\* The calls of a ScreenshotManager.
Next ==
    \/ load
    \/ startCapture
    \/ markCaptured
    \/ markFailed
    \/ markSkipped
    \/ finishCapture
    \/ getProgress
    \/ getPendingScreenshots
    \/ getAuthRequiredScreenshots
    \/ getPublicScreenshots
    \/ generateReport

Spec == Init /\ [][Next]_vars

\* The steps of one batch run.
NextBatch ==
    \/ main
    \/ init
    \/ capture
    \/ captureAllReturns
    \/ updateMetadata
    \/ printSummary
    \/ close

\* A batch run starts on a metadata file as the analysis step left it, or as an
\* earlier ScreenshotManager session left it after marking its first screenshot
\* failed (that session's save read the clock once).
FailedFile(n) ==
    Saved(MarkedFailed(FreshFile(n), TaskIds[1], "timeout").metadata, 1)

InitBatch ==
    /\ \/ /\ file \in {NoFile} \cup {FreshFile(n) : n \in 0..MaxTasks}
          /\ now = 1
       \/ /\ file \in {FailedFile(n) : n \in 1..MaxTasks}
          /\ now = 2
    /\ metadata = null
    /\ outputDir = "screenshots"
    /\ last = [op |-> "constructor", threw |-> FALSE]
    /\ authMode = FALSE
    /\ pc = "idle"
    /\ browser = "null"
    /\ isAuthenticated = FALSE
    /\ results = <<>>
    /\ step = [op |-> "constructor"]
    /\ contexts = <<>>
    /\ serialized = TRUE

SpecBatch == InitBatch /\ [][NextBatch]_vars

\* The auth_required key of a screenshot entry: missing, true or false.
AuthFlags == {"absent", "true", "false"}

FlagTask(i, flag) ==
    IF flag = "absent" THEN [id |-> TaskIds[i]]
    ELSE [id |-> TaskIds[i], auth_required |-> (flag = "true")]

\* The metadata files of the analysis step with every mix of auth_required keys.
FlagFiles ==
    {[screenshots |-> [status |-> "placeholder",
                       list |-> [i \in DOMAIN f |-> FlagTask(i, f[i])]]] :
        f \in UNION {[1..n -> AuthFlags] : n \in 0..MaxTasks}}

InitAuth ==
    /\ file \in FlagFiles
    /\ metadata = null
    /\ outputDir = "screenshots"
    /\ now = 1
    /\ last = [op |-> "constructor", threw |-> FALSE]
    /\ authMode = FALSE
    /\ pc = "idle"
    /\ browser = "null"
    /\ isAuthenticated = FALSE
    /\ results = <<>>
    /\ step = [op |-> "constructor"]
    /\ contexts = <<>>
    /\ serialized = TRUE

\* A session that marks screenshots failed and asks for the two auth groups.
NextAuth ==
    \/ load
    \/ markFailed
    \/ getAuthRequiredScreenshots
    \/ getPublicScreenshots

SpecAuth == InitAuth /\ [][NextAuth]_vars

\* A batch run in which every awaited call of main settles (completes or
\* throws), so main goes on to its next statement.
SpecBatchFair == SpecBatch /\ WF_vars(NextBatch)

\* ----------------------------------------------------- several CLI processes
\* The number of processes that each make one mark-* call on the same file.
MaxContexts == 2

Contexts == 1..MaxContexts

\* The id process p passes: each process names another screenshot.
ContextId(p) == TaskIds[p]

\* Mutant: the process starts from a copy of the file as the analysis step left it.
ctxLoad_FromCopy(p) ==
    /\ contexts[p].pc = "start"
    /\ contexts' = [contexts EXCEPT ![p] =
          [pc |-> "loaded", metadata |-> FreshFile(Len(List(file))),
           outputDir |-> "screenshots"]]
    /\ serialized' = (serialized /\ \A q \in Contexts \ {p} : contexts[q].pc # "loaded")
    /\ UNCHANGED <<file, now, managerVars, runnerVars>>

\* manager.load() of process p (CLI line 226): it reads the file as it is now.
ctxLoad(p) ==
    /\ contexts[p].pc = "start"
    /\ contexts' = [contexts EXCEPT ![p] =
          [pc |-> "loaded", metadata |-> file,
           outputDir |-> IF Get(file.screenshots, "output_dir") = undefined
                         THEN "screenshots"
                         ELSE file.screenshots.output_dir]]
    /\ serialized' = (serialized /\ \A q \in Contexts \ {p} : contexts[q].pc # "loaded")
    /\ UNCHANGED <<file, now, managerVars, runnerVars>>

\* The mark-* call of process p ends: it raised, or it saved its whole metadata.
ContextEnds(p, op, r) ==
    /\ r.threw \/ now <= MaxTime
    /\ file' = IF r.threw THEN file ELSE Written(Saved(r.metadata, now))
    /\ now' = IF r.threw THEN now ELSE now + 1
    /\ contexts' = [contexts EXCEPT ![p] =
          [pc |-> "done", op |-> op, threw |-> r.threw,
           metadata |-> IF r.threw THEN r.metadata ELSE Saved(r.metadata, now),
           outputDir |-> contexts[p].outputDir]]
    /\ UNCHANGED <<serialized, managerVars, runnerVars>>

\* The markCaptured, markFailed or markSkipped call of process p, a CLI command
\* (lines 257-275) or a script using the exported class, on the metadata the
\* process loaded.
ctxMark(p) ==
    /\ contexts[p].pc = "loaded"
    /\ LET c == contexts[p]
       IN  \/ \E filePath \in FilePaths :
                ContextEnds(p, "markCaptured",
                    MarkedCaptured(c.metadata, ContextId(p), filePath, c.outputDir, now))
           \/ \E errorMessage \in FailMessages :
                ContextEnds(p, "markFailed",
                    MarkedFailed(c.metadata, ContextId(p), errorMessage))
           \/ \E reason \in SkipReasons :
                ContextEnds(p, "markSkipped",
                    MarkedSkipped(c.metadata, ContextId(p), reason))

InitContexts ==
    /\ file \in {FreshFile(n) : n \in 1..MaxTasks}
    /\ metadata = null
    /\ outputDir = "screenshots"
    /\ now = 1
    /\ last = [op |-> "constructor", threw |-> FALSE]
    /\ authMode = FALSE
    /\ pc = "idle"
    /\ browser = "null"
    /\ isAuthenticated = FALSE
    /\ results = <<>>
    /\ step = [op |-> "constructor"]
    /\ contexts = [p \in Contexts |-> [pc |-> "start"]]
    /\ serialized = TRUE

NextContexts ==
    \/ \E p \in Contexts : ctxLoad(p)
    \/ \E p \in Contexts : ctxMark(p)

SpecContexts == InitContexts /\ [][NextContexts]_vars

\* ------------------------------------------------------------------- claims
MarkOps == {"markCaptured", "markFailed", "markSkipped"}
Terminal == {"captured", "partial", "failed"}

\* The session objects of a state: the manager's, once loaded, and the file's.
Sessions == (IF Loaded THEN {metadata} ELSE {}) \cup (IF file # NoFile THEN {file} ELSE {})

\* The screenshot with this id in a session holding one.
TaskOf(m, id) == List(m)[CHOOSE i \in 1..Len(List(m)) : List(m)[i].id = id]

HasTask(m, id) == \E i \in 1..Len(List(m)) : List(m)[i].id = id

NumCaptured(m) == Cardinality({i \in 1..Len(List(m)) : Get(List(m)[i], "status") = "captured"})

\* C1 (as stated): right after finishCapture the session status is captured iff
\* captured = total, failed iff captured = 0, and partial otherwise.
C1_Original ==
    (last.op = "finishCapture") =>
        LET st == metadata.screenshots.status
            captured == NumCaptured(metadata)
            total == Len(List(metadata))
        IN  /\ (st = "captured") <=> (captured = total)
            /\ (st = "failed") <=> (captured = 0)
            /\ (st = "partial") <=> ~(captured = total \/ captured = 0)

\* C1 (amended): right after finishCapture the session status is captured iff
\* captured = total (an empty list included), failed iff captured = 0 and
\* total > 0, and partial otherwise.
C1_Rollup ==
    (last.op = "finishCapture") =>
        LET st == metadata.screenshots.status
            captured == NumCaptured(metadata)
            total == Len(List(metadata))
        IN  /\ st \in Terminal
            /\ (st = "captured") <=> (captured = total)
            /\ (st = "failed") <=> (captured = 0 /\ total > 0)
            /\ (st = "partial") <=> (captured # total /\ captured > 0)

C1_Witness ==
    /\ last.op = "finishCapture"
    /\ metadata.screenshots.status = "partial"
    /\ NumCaptured(metadata) = 1
    /\ Len(List(metadata)) = 3

\* C2: in every state of a loaded session the counts of getProgress add up:
\* total = captured + failed + skipped + pending.
C2_ProgressAddsUp ==
    Loaded =>
        LET p == Progress(metadata)
        IN  p.total = p.captured + p.failed + p.skipped + p.pending

C2_Witness ==
    /\ last.op = "getProgress"
    /\ last.result.captured = 1
    /\ last.result.failed = 1
    /\ last.result.skipped = 1
    /\ last.result.pending = 0
\* C3 (as stated): in every state, a screenshot has file_path iff its status is
\* captured.
C3_Original ==
    \A m \in Sessions : \A i \in 1..Len(List(m)) :
        Has(List(m)[i], "file_path") <=> (Get(List(m)[i], "status") = "captured")

\* Whether a step gave screenshot i of the manager's list a file_path it did not
\* have, or another one.
FilePathSet(i) ==
    /\ Has(List(metadata')[i], "file_path")
    /\ \/ ~Loaded
       \/ ~Has(List(metadata)[i], "file_path")
       \/ List(metadata)[i].file_path # List(metadata')[i].file_path

\* C3 (amended): a captured screenshot has file_path, and file_path is set only
\* by markCaptured on that screenshot; markFailed and markSkipped keep the
\* file_path an earlier capture set.
C3_PathSetOnlyByCapture ==
    [][Loaded' =>
        \A i \in 1..Len(List(metadata')) :
            LET s == List(metadata')[i]
            IN  /\ (Get(s, "status") = "captured") => Has(s, "file_path")
                /\ FilePathSet(i) =>
                      /\ last'.op = "markCaptured" /\ last'.id = s.id
                      /\ s.status = "captured"
                /\ (Loaded /\ last'.op \in {"markFailed", "markSkipped"}
                           /\ Has(List(metadata)[i], "file_path")) =>
                      /\ Has(s, "file_path")
                      /\ s.file_path = List(metadata)[i].file_path]_vars

\* markCaptured then markFailed on the same screenshot: failed, with the path.
C3_Witness ==
    /\ last.op = "markFailed" /\ ~last.threw
    /\ TaskOf(metadata, last.id).status = "failed"
    /\ Has(TaskOf(metadata, last.id), "file_path")

\* C4 (as stated): in every state, a screenshot has error iff its status is
\* failed or skipped, whether the manager or the batch runner wrote it.
C4_Original ==
    \A m \in Sessions : \A i \in 1..Len(List(m)) :
        Has(List(m)[i], "error") <=> (Get(List(m)[i], "status") \in {"failed", "skipped"})

\* C5: a mark-* call with an id the list does not hold raises, and leaves the
\* manager's metadata and the file as they were.
C5_UnknownIdThrows ==
    [][(Loaded /\ last'.op \in MarkOps /\ ~HasTask(metadata, last'.id)) =>
          /\ last'.threw
          /\ metadata' = metadata
          /\ file' = file
          /\ now' = now]_vars

C5_Witness ==
    /\ last.op \in MarkOps
    /\ last.id = UnknownId
    /\ last.threw
    /\ now = 3
    /\ file = metadata

\* C6: markFailed then markCaptured on one id leaves it captured, without error,
\* with the path given (or the default one); markCaptured then markFailed leaves
\* it failed with the message given.
C6_FailThenCapture ==
    [][(~last.threw /\ ~last'.threw /\ last.op \in MarkOps /\ last'.op \in MarkOps
            /\ last'.id = last.id) =>
          LET s == TaskOf(metadata', last'.id)
          IN  /\ (last.op = "markFailed" /\ last'.op = "markCaptured") =>
                    /\ s.status = "captured"
                    /\ ~Has(s, "error")
                    /\ Has(s, "file_path")
                    /\ s.file_path = IF last'.arg # null THEN last'.arg
                                     ELSE <<outputDir, last'.id, "png">>
              /\ (last.op = "markCaptured" /\ last'.op = "markFailed") =>
                    /\ s.status = "failed"
                    /\ Has(s, "error")
                    /\ s.error = last'.arg]_vars

\* markCaptured at one clock reading, markFailed of the same id at the next.
C6_Witness ==
    /\ last.op = "markFailed" /\ ~last.threw
    /\ LET s == TaskOf(metadata, last.id)
       IN  /\ s.status = "failed"
           /\ s.error = last.arg
           /\ Has(s, "captured_at")
           /\ s.captured_at = last.at - 1

\* C7 (as stated): after a mark-* call succeeds, the screenshot's captured_at
\* is the time of that call.
C7_Original ==
    (last.op \in MarkOps /\ ~last.threw) =>
        /\ Has(TaskOf(metadata, last.id), "captured_at")
        /\ TaskOf(metadata, last.id).captured_at = last.at
\* The rollup formula over counts.
Formula(captured, total) ==
    CASE captured = total -> "captured"
      [] captured # total /\ captured > 0 -> "partial"
      [] OTHER -> "failed"

\* C8 (as stated): whenever the session status is captured, partial or failed,
\* it is the rollup formula of the current screenshot statuses.
C8_Original ==
    (Loaded /\ metadata.screenshots.status \in Terminal) =>
        metadata.screenshots.status = Formula(NumCaptured(metadata), Len(List(metadata)))

\* C8 (amended): whenever the session status is captured, partial or failed, it
\* is the rollup formula of the counts in the embedded summary, the counts of
\* the last finishCapture; a mark-* call made after finishCapture changes the
\* screenshot statuses and leaves session status and summary as they were.
C8_StatusMatchesSummary ==
    [][Loaded' =>
        LET shots == metadata'.screenshots
        IN  /\ (shots.status \in Terminal) =>
                  /\ Has(shots, "summary")
                  /\ shots.status = Formula(shots.summary.captured, shots.summary.total)
            /\ (Loaded /\ last'.op \in MarkOps) =>
                  /\ shots.status = metadata.screenshots.status
                  /\ Has(shots, "summary") = Has(metadata.screenshots, "summary")
                  /\ Has(shots, "summary") => shots.summary = metadata.screenshots.summary]_vars

\* A mark-* call after finishCapture: the status no longer matches the list.
C8_Witness ==
    /\ last.op \in MarkOps /\ ~last.threw
    /\ metadata.screenshots.status \in Terminal
    /\ metadata.screenshots.status # Formula(NumCaptured(metadata), Len(List(metadata)))

\* The status of a session object, "none" while there is no object.
StatusOf(m) == IF m = null THEN "none" ELSE m.screenshots.status

\* C9 (as stated): the status changes to capturing only through startCapture and
\* to captured, partial or failed only through finishCapture, and it moves
\* placeholder -> capturing -> {captured, partial, failed}.
C9_Original ==
    [][(Loaded /\ StatusOf(metadata') # StatusOf(metadata)) =>
          \/ /\ last'.op = "startCapture"
             /\ StatusOf(metadata) = "placeholder"
             /\ StatusOf(metadata') = "capturing"
          \/ /\ last'.op = "finishCapture"
             /\ StatusOf(metadata) = "capturing"
             /\ StatusOf(metadata') \in Terminal]_vars

\* C9 (amended): the status changes to capturing only through startCapture and
\* to captured, partial or failed only through finishCapture; the mark-* calls
\* and the queries never change it, in the manager or in the file.  The order
\* is the caller's: either call is accepted in any status.
C9_OnlyStartAndFinish ==
    [][/\ (Loaded /\ StatusOf(metadata') # StatusOf(metadata)) =>
             \/ last'.op = "startCapture" /\ StatusOf(metadata') = "capturing"
             \/ last'.op = "finishCapture" /\ StatusOf(metadata') \in Terminal
       /\ (StatusOf(file') # StatusOf(file)) =>
             \/ last'.op = "startCapture" /\ StatusOf(file') = "capturing"
             \/ last'.op = "finishCapture" /\ StatusOf(file') \in Terminal
       /\ (Loaded /\ last' # last /\ last'.op = "startCapture") =>
             StatusOf(metadata') = "capturing"
       /\ (Loaded /\ last' # last /\ last'.op = "finishCapture") =>
             StatusOf(metadata') \in Terminal]_vars

\* startCapture, then finishCapture: a terminal status with a start time.
C9_Witness ==
    /\ last.op = "finishCapture"
    /\ Has(metadata.screenshots, "capture_started_at")
    /\ metadata.screenshots.status \in Terminal
    /\ file.screenshots.status = metadata.screenshots.status

\* The number of screenshots of a list with this status key.
Count(list, st) ==
    Cardinality({i \in 1..Len(list) : Has(list[i], "status") /\ list[i].status = st})

\* C10: the summary finishCapture persists is {total, captured, failed, skipped}
\* counted over the list at the call, whatever the statuses; the file holds it.
C10_SummaryIsCounts ==
    (last.op = "finishCapture") =>
        LET list == List(metadata)
        IN  /\ Has(metadata.screenshots, "summary")
            /\ metadata.screenshots.summary =
                  [total |-> Len(list), captured |-> Count(list, "captured"),
                   failed |-> Count(list, "failed"), skipped |-> Count(list, "skipped")]
            /\ file # NoFile
            /\ Has(file.screenshots, "summary")
            /\ file.screenshots.summary = metadata.screenshots.summary
            /\ file.screenshots.status = metadata.screenshots.status

\* Three screenshots, one captured, one failed, one left pending.
C10_Witness ==
    /\ last.op = "finishCapture"
    /\ Len(List(metadata)) = 3
    /\ \E a, b, c \in 1..3 :
          /\ {a, b, c} = 1..3
          /\ Get(List(metadata)[a], "status") = "captured"
          /\ Get(List(metadata)[b], "status") = "failed"
          /\ IsPending(List(metadata)[c])
    /\ file.screenshots.status = "partial"
    /\ file.screenshots.summary = [total |-> 3, captured |-> 1, failed |-> 1, skipped |-> 0]

\* The fields of a screenshot that make its state: status, file_path and error,
\* each with whether the key is there.
TaskState(s) ==
    [status |-> Get(s, "status"),
     file_path |-> IF Has(s, "file_path") THEN s.file_path ELSE null,
     error |-> Get(s, "error")]

\* C11: a markCaptured call that repeats the call before it (same id, same
\* path argument, the first one returned) leaves status, file_path and error of
\* the screenshot as the first call left them, in the manager and in the file.
C11_MarkCapturedIdempotent ==
    [][(last' # last /\ last'.op = "markCaptured" /\ last'.again) =>
          /\ ~last'.threw
          /\ last'.from = "captured"
          /\ TaskState(TaskOf(metadata', last'.id)) = TaskState(TaskOf(metadata, last'.id))
          /\ TaskState(TaskOf(file', last'.id)) = TaskState(TaskOf(file, last'.id))
          /\ TaskState(TaskOf(metadata', last'.id)) =
                [status |-> "captured",
                 file_path |-> IF last'.arg # null THEN last'.arg
                               ELSE <<outputDir, last'.id, "png">>,
                 error |-> undefined]]_vars

\* The second of two equal markCaptured calls has acted: its time is stamped.
C11_Witness ==
    /\ last.op = "markCaptured" /\ last.again /\ ~last.threw
    /\ last.arg = null
    /\ TaskOf(metadata, last.id).captured_at = last.at
    /\ TaskOf(file, last.id).file_path = <<outputDir, last.id, "png">>

\* Whether a screenshot is in the queue: no status key, or status pending.
Queued(st) == st \in {undefined, "pending"}

\* C12: no call takes a screenshot that is captured, failed or skipped back to
\* pending or to no status, in the manager or in the file; and markCaptured of
\* a listed id leaves it captured whatever its status was (pending, none,
\* failed, skipped or captured).
C12_NeverBackToPending ==
    [][/\ \A m \in {<<metadata, metadata'>>, <<file, file'>>} :
             (m[1] # null /\ m[2] # null) =>
                 \A i \in 1..Len(List(m[1])) :
                     ~Queued(Get(List(m[1])[i], "status")) =>
                         /\ i <= Len(List(m[2]))
                         /\ List(m[2])[i].id = List(m[1])[i].id
                         /\ ~Queued(Get(List(m[2])[i], "status"))
       /\ (last' # last /\ last'.op = "markCaptured" /\ last'.from # "none") =>
             /\ ~last'.threw
             /\ TaskOf(metadata', last'.id).status = "captured"
             /\ TaskOf(file', last'.id).status = "captured"]_vars

\* A failed screenshot captured by a later call.
C12_Witness ==
    /\ last.op = "markCaptured" /\ last.from = "failed" /\ ~last.threw
    /\ TaskOf(file, last.id).status = "captured"
    /\ \E i \in 1..Len(List(file)) : Get(List(file)[i], "status") = "skipped"

\* Whether a sequence of screenshots holds the one with this id.
Holds(seq, id) == \E j \in 1..Len(seq) : seq[j].id = id

\* C13: in every state of a loaded session, for every mix of auth_required keys
\* (true, false, missing), each screenshot of the list is in exactly one of the
\* results of getAuthRequiredScreenshots and getPublicScreenshots, and the two
\* results hold nothing else.
C13_AuthPartition ==
    Loaded =>
        LET list == List(metadata)
            A == AuthRequiredScreenshots(metadata)
            P == PublicScreenshots(metadata)
        IN  /\ Len(A) + Len(P) = Len(list)
            /\ \A i \in 1..Len(list) :
                   /\ Holds(A, list[i].id) # Holds(P, list[i].id)
                   /\ Holds(A, list[i].id) =>
                         \E j \in 1..Len(A) : A[j] = list[i]
                   /\ Holds(P, list[i].id) =>
                         \E j \in 1..Len(P) : P[j] = list[i]
            /\ (last.op = "getAuthRequiredScreenshots") => last.result = A
            /\ (last.op = "getPublicScreenshots") => last.result = P

\* Three screenshots, the first failed: one with the key missing and one with
\* auth_required false are public, the one with auth_required true is not.
C13_Witness ==
    /\ last.op = "getPublicScreenshots"
    /\ Len(List(metadata)) = 3
    /\ Len(last.result) = 2
    /\ \E j \in 1..2 : ~Has(last.result[j], "auth_required")
    /\ \E j \in 1..2 : Has(last.result[j], "auth_required")
    /\ Get(List(metadata)[1], "status") = "failed"
    /\ Len(AuthRequiredScreenshots(metadata)) = 1

\* The calls that end with save().
SavingOps == {"startCapture", "finishCapture"} \cup MarkOps

\* What a reader sees of a session object: per screenshot its id, status,
\* file_path, error and captured_at; the session status and the summary.
SessionState(m) ==
    [tasks |-> [i \in 1..Len(List(m)) |->
                  [id |-> List(m)[i].id,
                   state |-> TaskState(List(m)[i]),
                   captured_at |-> IF Has(List(m)[i], "captured_at")
                                   THEN List(m)[i].captured_at ELSE 0]],
     status |-> m.screenshots.status,
     summary |-> IF Has(m.screenshots, "summary") THEN m.screenshots.summary ELSE null]

\* C14: right after a startCapture, markCaptured, markFailed, markSkipped or
\* finishCapture that returned, the file holds the manager's session: the same
\* screenshots with the same status, file_path and error, the same session
\* status and summary; a load at that point reads back what the manager holds.
C14_StoreHoldsSession ==
    (last.op \in SavingOps /\ ~last.threw) =>
        /\ file # NoFile
        /\ SessionState(file) = SessionState(metadata)
        /\ file = Written(metadata)
        /\ file.updated_at = last.at

\* A failure saved, then finishCapture: the file has the error and the summary.
C14_Witness ==
    /\ last.op = "finishCapture"
    /\ file # NoFile
    /\ Has(file.screenshots, "summary")
    /\ file.screenshots.summary.failed = 1
    /\ \E i \in 1..Len(List(file)) :
          /\ Has(List(file)[i], "error")
          /\ Has(List(metadata)[i], "error")
          /\ List(file)[i].error = List(metadata)[i].error
    /\ \E i \in 1..Len(List(file)) : Has(List(file)[i], "file_path")

ResultStatuses == {"captured", "failed", "skipped"}

\* C15: the batch runner takes the definitions of SCREENSHOTS one by one in list
\* order, each once, whatever the earlier results were: the k-th result is that
\* of the k-th definition, with status captured, failed or skipped, and when
\* captureAll returns there is one result per definition.
C15_EveryDefinitionOnce ==
    /\ Len(results) <= Len(SCREENSHOTS)
    /\ \A k \in 1..Len(results) :
          /\ results[k].id = SCREENSHOTS[k].id
          /\ results[k].status \in ResultStatuses
    /\ (step.op = "capture") =>
          /\ step.index = Len(results)
          /\ step.id = SCREENSHOTS[step.index].id
    /\ (step.op = "captureAll") => Len(results) = Len(SCREENSHOTS)
    /\ (pc = "captureAll" /\ Len(results) < Len(SCREENSHOTS)) => ENABLED capture

\* captureAll returned after a run whose first capture failed: later ones were
\* captured, and the ones needing a login skipped.
C15_Witness ==
    /\ step.op = "captureAll"
    /\ Len(results) = Len(SCREENSHOTS)
    /\ results[1].status = "failed"
    /\ results[2].status = "captured"
    /\ \E k \in 3..Len(results) : results[k].status = "skipped"
    /\ \E k \in 3..Len(results) : results[k].status = "failed"

\* The positions of a session's list whose screenshot is in the queue.
QueuedAt(m) == {i \in 1..Len(List(m)) : Queued(Get(List(m)[i], "status"))}

\* C16: the result of getPendingScreenshots is computed from the list as it is
\* at the call: it holds, in list order, exactly the screenshots with status
\* pending or with no status; one marked captured, failed or skipped is not in
\* it.
C16_PendingIsCurrent ==
    (last.op = "getPendingScreenshots") =>
        LET list == List(metadata)
            r == last.result
        IN  /\ Len(r) = Cardinality(QueuedAt(metadata))
            /\ \A i \in 1..Len(list) :
                   /\ Holds(r, list[i].id) <=> i \in QueuedAt(metadata)
                   /\ Holds(r, list[i].id) => \E j \in 1..Len(r) : r[j] = list[i]
                   /\ i \notin QueuedAt(metadata) => list[i].status \in ResultStatuses
            /\ \A j, k \in 1..Len(r) :
                   j < k => FindIndex(list, r[j].id) < FindIndex(list, r[k].id)

\* The first of three screenshots was marked: the result holds the other two,
\* one with no status key and one with status pending.
C16_Witness ==
    /\ last.op = "getPendingScreenshots"
    /\ Len(List(metadata)) = 3
    /\ Get(List(metadata)[1], "status") \in ResultStatuses
    /\ Len(last.result) = 2
    /\ ~Has(last.result[1], "status")
    /\ last.result[2].status = "pending"

\* The values the metadata schema allows for screenshots.status.
SchemaStatuses == {"placeholder", "capturing", "captured", "partial"}

\* C17 (as stated): whatever calls were made, the screenshots.status in the
\* metadata file is one of placeholder, capturing, captured, partial.
C17_Original ==
    (file # NoFile) => file.screenshots.status \in SchemaStatuses

\* C18 (as stated): the screenshots.status the batch runner writes is the rollup
\* formula of finishCapture over the list it has just updated.
C18_Original ==
    (step.op = "updateMetadata" /\ step.wrote) =>
        file.screenshots.status = Formula(NumCaptured(file), Len(List(file)))

\* The status a mark-* method assigns.
StatusFor(op) ==
    CASE op = "markCaptured" -> "captured"
      [] op = "markFailed" -> "failed"
      [] op = "markSkipped" -> "skipped"

\* C19: a mark-* call with an id of the list returns, whatever the status of
\* the screenshot (none, pending, captured, failed, skipped) and whatever the
\* session status (placeholder, capturing, or the one finishCapture left), and
\* the screenshot then has the status of the call, in the manager and the file.
C19_MarkNeverRejected ==
    [][(last' # last /\ last'.op \in MarkOps /\ last'.from # "none") =>
          /\ ~last'.threw
          /\ TaskOf(metadata', last'.id).status = StatusFor(last'.op)
          /\ TaskOf(file', last'.id).status = StatusFor(last'.op)]_vars

\* A captured screenshot skipped after finishCapture.
C19_Witness ==
    /\ last.op = "markSkipped" /\ last.from = "captured" /\ ~last.threw
    /\ metadata.screenshots.status \in Terminal
    /\ TaskOf(file, last.id).status = "skipped"

\* C20: a mark-* call that returns changes the screenshot it names and no
\* other: the list keeps its length and every other screenshot is as it was,
\* key by key, in the manager and in the file; one that was pending still is.
C20_OnlyTheTaskNamed ==
    [][(last' # last /\ last'.op \in MarkOps /\ ~last'.threw) =>
          /\ Len(List(metadata')) = Len(List(metadata))
          /\ Len(List(file')) = Len(List(metadata))
          /\ \A i \in 1..Len(List(metadata)) :
                 (List(metadata)[i].id # last'.id) =>
                     /\ List(metadata')[i] = List(metadata)[i]
                     /\ List(file')[i] = List(metadata)[i]
                     /\ file # NoFile => List(file')[i] = List(file)[i]]_vars

\* Three screenshots: one captured, the second failed by the last call, the
\* third still pending in the file.
C20_Witness ==
    /\ last.op = "markFailed" /\ ~last.threw
    /\ file # NoFile /\ Len(List(file)) = 3
    /\ last.id = List(file)[2].id
    /\ Get(List(file)[1], "status") = "captured"
    /\ List(file)[1].captured_at < last.at
    /\ Get(List(file)[3], "status") = "pending"
    /\ ~Has(List(file)[3], "error")

\* The list of a session object as the analysis step made it: per screenshot
\* its id and its auth_required key (missing, true or false), in list order.
Shape(m) ==
    [i \in 1..Len(List(m)) |->
        [id |-> List(m)[i].id,
         auth_required |-> IF ~Has(List(m)[i], "auth_required") THEN "absent"
                           ELSE IF List(m)[i].auth_required THEN "true" ELSE "false"]]

AuthResults == {k \in 1..Len(results) : SCREENSHOTS[k].auth}

MarkKept(p) ==
    /\ HasTask(file, ContextId(p))
    /\ Get(TaskOf(file, ContextId(p)), "status") = StatusFor(contexts[p].op)
    /\ TaskOf(file, ContextId(p)) = TaskOf(contexts[p].metadata, ContextId(p))

\* C23: processes that each load, mark another screenshot and save, one after
\* the other (none loads while another is between its load and its save), leave
\* a file that holds the mark of every process that returned.
C23_SerializedKeepsEveryMark ==
    serialized =>
        \A p \in Contexts :
            (contexts[p].pc = "done" /\ ~contexts[p].threw) => MarkKept(p)

\* Two processes ran one after the other on two screenshots; both marks are in
\* the file.
C23_Witness ==
    /\ serialized
    /\ \A p \in Contexts : contexts[p].pc = "done" /\ ~contexts[p].threw
    /\ contexts[1].op = "markCaptured"
    /\ contexts[2].op = "markFailed"
    /\ MarkKept(1) /\ MarkKept(2)
    /\ now = MaxContexts + 1

\* C24: in a batch run a browser that was launched is closed in the end, whether
\* init threw after the launch or the run went through captureAll and
\* updateMetadata; only close() closes it, it is the last step of main, and no
\* capture runs once the browser is closed.
C24_BrowserClosedInTheEnd ==
    /\ (browser = "open") ~> (browser = "closed")
    /\ (pc # "idle") ~> (pc = "done" /\ step.op = "close")
    /\ [](browser = "closed" => pc = "done")
    /\ [](pc = "done" => browser # "open")
    /\ [][/\ (browser' = "closed" /\ browser # "closed") => step'.op = "close"
          /\ (step' # step /\ step'.op = "capture") => browser = "open" /\ browser' = "open"
          /\ (browser = "closed") => (browser' = "closed" /\ results' = results)]_vars

\* newPage threw after the launch: close() ran and closed the browser.
C24_Witness ==
    /\ pc = "done" /\ step.op = "close"
    /\ browser = "closed"
    /\ results = <<>>

\* Whether a step is a capture of a definition with auth: true.
AuthCapture == step' # step /\ step'.op = "capture" /\ SCREENSHOTS[step'.index].auth

\* C25: in a run with --auth, isAuthenticated once true stays true and
\* authenticate() is not called again: later definitions with auth: true go
\* straight to navigation.  When authenticate() throws, the result of that
\* definition is failed and isAuthenticated stays false, and the next definition
\* with auth: true calls authenticate() again.
C25_AuthenticatesUntilDone ==
    [][/\ isAuthenticated => isAuthenticated'
       /\ (AuthCapture /\ isAuthenticated) =>
             /\ step'.authenticate = "not called"
             /\ step'.attempted
       /\ (AuthCapture /\ authMode /\ ~isAuthenticated) =>
             /\ step'.authenticate \in {"threw", "completed"}
             /\ isAuthenticated' = (step'.authenticate = "completed")
       /\ (AuthCapture /\ step'.authenticate = "threw") =>
             /\ results'[step'.index].status = "failed"
             /\ ~step'.attempted
             /\ ~isAuthenticated']_vars

\* The login flow threw at the first page that needs it and completed at the
\* second, which was then captured.
C25_Witness ==
    /\ authMode
    /\ step.op = "capture" /\ step.index = 6
    /\ step.authenticate = "completed"
    /\ isAuthenticated
    /\ results[5].status = "failed"
    /\ results[6].status = "captured"

\* The positions of the results with this id.
ResultsFor(id) == {k \in 1..Len(results) : results[k].id = id}

\* C26: updateMetadata leaves the file missing when it is missing; otherwise
\* the list keeps its entries, each screenshot whose id has a result gets the
\* status of that result, each screenshot without a result is written back as
\* it was, results whose id the list does not hold add nothing, and the run
\* goes on to printSummary.
C26_UpdateByResult ==
    [][(step' # step /\ step'.op = "updateMetadata") =>
          /\ pc' = "printSummary"
          /\ step'.wrote = (file # NoFile)
          /\ (file = NoFile) => (file' = NoFile /\ now' = now)
          /\ (file # NoFile) =>
                /\ file' # NoFile
                /\ Len(List(file')) = Len(List(file))
                /\ \A i \in 1..Len(List(file)) :
                       LET s == List(file)[i]
                       IN  IF ResultsFor(s.id) = {}
                           THEN List(file')[i] = s
                           ELSE /\ List(file')[i].id = s.id
                                /\ \A k \in ResultsFor(s.id) :
                                       Get(List(file')[i], "status") = results[k].status]_vars

\* A file of three screenshots: the first two have results, one of them
\* skipped; the third has none and keeps no status; five results name ids the
\* list does not hold.
C26_Witness ==
    /\ step.op = "updateMetadata" /\ step.wrote
    /\ Len(List(file)) = 3
    /\ List(file)[1].status = "failed"
    /\ List(file)[2].status = "skipped"
    /\ List(file)[3] = TaskDef(3)
    /\ Cardinality({k \in 1..Len(results) : ~HasTask(file, results[k].id)}) = 5
====
